---------------------------- MODULE Spec2Model ----------------------------
(***************************************************************************)
(* Model of the video watermarking backend (python-backend/inference_av.py) *)
(* and of the augmentation engine (videoseal/augmentation/augmenter.py).    *)
(*                                                                          *)
(* Four specifications, one per entry point family:                         *)
(*   SpecEmbed    embed_video        (chunked embedding loop)               *)
(*   SpecAnalyze  analyze_video      (chunked detection and averaging)      *)
(*   SpecAug      Augmenter          (construction, augment, forward)       *)
(*   SpecHttp     process_video_file / analyze_video_file (Flask handlers)  *)
(* A specification leaves the variables of the other three at their idle    *)
(* values.                                                                  *)
(***************************************************************************)
EXTENDS Integers, Sequences, FiniteSets, TLC

VARIABLES
    \* ---- shared by embed_video and analyze_video
    pc,               \* position in the function being run
    decoder,          \* VideoDecoder(input_path): the source frames, in order
    chunk_size,       \* the chunk_size argument
    i,                \* the loop variable of range(0, len(decoder), chunk_size)
    frames,           \* the chunk last read from the decoder
    ret,              \* the value returned
    error,            \* the exception raised ("" when none)
    \* ---- embed_video
    message_bits,     \* the (1, 96) tensor drawn by torch.randint
    message_bits_list,\* message_bits.cpu().numpy().flatten().tolist()
    processed_frames, \* the chunk returned by process_video_chunk
    stream,           \* frames written to the StreamWriter, in write order
    read,             \* history: frames read from the decoder so far
    embed_msgs,       \* history: msgs argument of every video_model.embed call
    \* ---- analyze_video
    soft_msgs,        \* the list of per-chunk output_bits
    detected,         \* history: full detect rows, one per frame, in call order
    \* ---- Augmenter
    aug_pc,           \* "new", "failed" (the constructor raised), "ready",
                      \* "fwd" (in forward's loop), "returned" (a call ended)
    cfg_augs,         \* the augs argument: <<name, weight>> pairs in dict order
    num_augs,         \* self.num_augs
    self_augs,        \* self.augs: the class of each instance, in order
    aug_probs,        \* self.aug_probs: exact fractions
    built,            \* history: self.augs and self.aug_probs as constructed
    training,         \* self.training during the current forward call
    is_video,         \* the is_video argument of the current call
    imgs_aug,         \* forward's local imgs_aug (Unbound until assigned)
    mask_targets,     \* forward's local mask_targets
    selected_augs,    \* forward's local list selected_augs
    selected_aug,     \* forward's local selected_aug (Unbound until assigned)
    aug_calls,        \* history: the augment calls of the current call
    aug_ret,          \* the value returned by the last call
    aug_error,        \* the exception raised by the last call or constructor
    aug_op,           \* history: the last operation begun on the Augmenter
    fwd_in,           \* history: forward's inputs and the mask embedder's output
    \* ---- the Flask handlers
    handler,          \* "process_video_file" or "analyze_video_file"
    h_pc,             \* position in the handler
    request,          \* request.files: is there a 'video', has it a filename
    fs,               \* the temp files of this request that exist on disk
    combine_result,   \* process3.wait(): 0, 1 or -1 while not run
    h_exc,            \* the exception propagating in the handler ("" when none)
    h_bits,           \* message_bits / extracted_bits, once the pipeline returned
    h_ret,            \* the value the return statement reached has produced
    outcome,          \* how the handler ended: a response or an escaped exception
    failure,          \* history: the step that failed ("" when none)
    created,          \* history: the temp files this request created
    stuck             \* history: the files whose os.remove raised OSError

streamVars  == <<pc, decoder, chunk_size, i, frames, ret, error>>
embedVars   == <<message_bits, message_bits_list, processed_frames, stream,
                 read, embed_msgs>>
analyzeVars == <<soft_msgs, detected>>
augVars     == <<aug_pc, cfg_augs, num_augs, self_augs, aug_probs, built,
                 training, is_video, imgs_aug, mask_targets, selected_augs,
                 selected_aug, aug_calls, aug_ret, aug_error, aug_op,
                 fwd_in>>
httpVars    == <<handler, h_pc, request, fs, combine_result, h_exc, h_bits, h_ret,
                 outcome, failure, created, stuck>>
vars        == <<streamVars, embedVars, analyzeVars, augVars, httpVars>>

\* what each entry point leaves alone
notEmbed    == <<analyzeVars, augVars, httpVars>>
notAnalyze  == <<embedVars, augVars, httpVars>>
notAug      == <<streamVars, embedVars, analyzeVars, httpVars>>
notHttp     == <<streamVars, embedVars, analyzeVars, augVars>>

(***************************************************************************)
(* Bounds of the model                                                      *)
(***************************************************************************)
MaxFrames  == 4      \* source videos have 0..MaxFrames frames
MaxChunk   == 3      \* chunk_size ranges over 1..MaxChunk
MaxPattern == 2      \* torch.randint draws one of MaxPattern+1 bit patterns
MaxPred    == 2      \* detect's soft predictions range over 0..MaxPred
PayloadLen == 2      \* payload positions of a detect row (its width minus 1)

(***************************************************************************)
(* Program constants                                                        *)
(***************************************************************************)
MsgBits == 96

(***************************************************************************)
(* Python helpers                                                           *)
(***************************************************************************)
Min(a, b) == IF a < b THEN a ELSE b

\* s[a:b] of a Python sequence (0-based, end exclusive, clamped to len(s))
Slice(s, a, b) == SubSeq(s, Min(a, Len(s)) + 1, Min(b, Len(s)))

RECURSIVE SumSeq(_)
SumSeq(s) == IF s = <<>> THEN 0 ELSE Head(s) + SumSeq(Tail(s))

\* torch.cat(list, dim=0): the rows of every tensor of the list, in list order
RECURSIVE Cat(_)
Cat(ts) == IF ts = <<>> THEN <<>> ELSE Head(ts) \o Cat(Tail(ts))

IsPrefix(s, t) == Len(s) <= Len(t) /\ s = SubSeq(t, 1, Len(s))

(***************************************************************************)
(* embed_video                                                              *)
(***************************************************************************)
\* One row of 96 bits; torch.randint(0, 2, ...) is modelled by a small family
\* of bit patterns (all zero, all one, alternating, ...).
BitPattern(p) ==
    [j \in 1..MsgBits |-> IF p = 0 THEN 0 ELSE IF j % p = 0 THEN 1 ELSE 0]

\* torch.randint(0, 2, (1, 96)): the tensors that may be drawn, shape (1, 96)
RandInt == { <<BitPattern(p)>> : p \in 0..MaxPattern }

\* tensor.cpu().numpy().flatten().tolist(): the rows laid end to end
Flatten(t) == Cat(t)

\* tensor.clone(): an equal tensor
Clone(t) == [r \in 1..Len(t) |-> [c \in 1..Len(t[r]) |-> t[r][c]]]

\* A plausible bug: a fresh draw for every chunk instead of the clone.
ChunkMessageFresh(msg, k) ==
    <<BitPattern((k + 1) % (MaxPattern + 1))>>

\* the message handed to process_video_chunk for the chunk starting at k
ChunkMessage(msg, k) == Clone(msg)

\* video_model.embed(clip, msgs, is_video=True)["imgs_w"]: one watermarked
\* frame per input frame, in input order, carrying the message embedded.
ModelEmbed(clip, msgs) ==
    [k \in 1..Len(clip) |-> [src |-> clip[k].src, msg |-> Flatten(msgs)]]

process_video_chunk(chunk, msgs) == ModelEmbed(chunk, msgs)

\* A plausible bug: a loop that stops before a final, shorter chunk.
LoopContinuesFullOnly(k, n, c) == k + c <= n

\* whether range(0, n, c) still yields the value k
LoopContinues(k, n, c) == k < n

Videos == { [k \in 1..n |-> [src |-> k]] : n \in 0..MaxFrames }

IdleEmbed ==
    /\ message_bits = <<>>
    /\ message_bits_list = <<>>
    /\ processed_frames = <<>>
    /\ stream = <<>>
    /\ read = <<>>
    /\ embed_msgs = <<>>

IdleAnalyze ==
    /\ soft_msgs = <<>>
    /\ detected = <<>>

\* a local name that has not been assigned yet (a label, a tensor)
Unbound == "unbound"
UnboundTensor == [px |-> 0, shape |-> <<0, 0>>, hist |-> <<"unbound">>]

IdleAugCall ==
    /\ training = FALSE
    /\ is_video = FALSE
    /\ imgs_aug = UnboundTensor
    /\ mask_targets = UnboundTensor
    /\ selected_augs = <<>>
    /\ selected_aug = Unbound
    /\ aug_calls = <<>>
    /\ aug_ret = <<>>
    /\ aug_error = ""
    /\ aug_op = ""
    /\ fwd_in = <<>>

IdleAug ==
    /\ aug_pc = "idle"
    /\ cfg_augs = <<>>
    /\ num_augs = 0
    /\ self_augs = <<>>
    /\ aug_probs = <<>>
    /\ built = <<>>
    /\ IdleAugCall

NoResponse == [kind |-> "none", status |-> 0, body |-> "", bits |-> <<>>]

IdleHttp ==
    /\ handler = ""
    /\ h_pc = "idle"
    /\ request = [has_video |-> FALSE, has_filename |-> FALSE]
    /\ fs = {}
    /\ combine_result = -1
    /\ h_exc = ""
    /\ h_bits = <<>>
    /\ h_ret = NoResponse
    /\ outcome = NoResponse
    /\ failure = ""
    /\ created = {}
    /\ stuck = {}

IdleStream ==
    /\ pc = "idle"
    /\ decoder = <<>>
    /\ chunk_size = 1
    /\ i = 0
    /\ frames = <<>>
    /\ ret = <<>>
    /\ error = ""

InitStream ==
    /\ pc = "call"
    /\ decoder \in Videos
    /\ chunk_size \in 1..MaxChunk
    /\ i = 0
    /\ frames = <<>>
    /\ ret = <<>>
    /\ error = ""

InitEmbed == InitStream /\ IdleEmbed /\ IdleAnalyze /\ IdleAug /\ IdleHttp

\* lines 46-58: draw the message, open the decoder and the stream
EmbedStart ==
    /\ pc = "call"
    /\ \E m \in RandInt :
          /\ message_bits' = m
          /\ message_bits_list' = Flatten(m)
    /\ pc' = "loop"
    /\ UNCHANGED <<decoder, chunk_size, i, frames, ret, error,
                   processed_frames, stream, read, embed_msgs>>
    /\ UNCHANGED notEmbed

\* line 60: frames = decoder[i : i + chunk_size]
EmbedDecode ==
    /\ pc = "loop"
    /\ LoopContinues(i, Len(decoder), chunk_size)
    /\ frames' = Slice(decoder, i, i + chunk_size)
    /\ read' = read \o Slice(decoder, i, i + chunk_size)
    /\ pc' = "process"
    /\ UNCHANGED <<decoder, chunk_size, i, ret, error, message_bits,
                   message_bits_list, processed_frames, stream, embed_msgs>>
    /\ UNCHANGED notEmbed

\* line 61: processed_frames = process_video_chunk(frames, message_bits.clone())
EmbedProcess ==
    /\ pc = "process"
    /\ processed_frames' = process_video_chunk(frames, ChunkMessage(message_bits, i))
    /\ embed_msgs' = Append(embed_msgs, ChunkMessage(message_bits, i))
    /\ pc' = "write"
    /\ UNCHANGED <<decoder, chunk_size, i, frames, ret, error, message_bits,
                   message_bits_list, stream, read>>
    /\ UNCHANGED notEmbed

\* line 62: stream.write_video_chunk(0, processed_frames); next i
EmbedWrite ==
    /\ pc = "write"
    /\ stream' = stream \o processed_frames
    /\ i' = i + chunk_size
    /\ pc' = "loop"
    /\ UNCHANGED <<decoder, chunk_size, frames, ret, error, message_bits,
                   message_bits_list, processed_frames, read, embed_msgs>>
    /\ UNCHANGED notEmbed

\* line 64: return output_path, message_bits_list
EmbedReturn ==
    /\ pc = "loop"
    /\ ~LoopContinues(i, Len(decoder), chunk_size)
    /\ ret' = <<"output_path", message_bits_list>>
    /\ pc' = "done"
    /\ UNCHANGED <<decoder, chunk_size, i, frames, error>>
    /\ UNCHANGED embedVars
    /\ UNCHANGED notEmbed

NextEmbed ==
    \/ EmbedStart
    \/ EmbedDecode
    \/ EmbedProcess
    \/ EmbedWrite
    \/ EmbedReturn

SpecEmbed == InitEmbed /\ [][NextEmbed]_vars


(***************************************************************************)
(* Claims about embed_video (checked under SpecEmbed)                       *)
(***************************************************************************)
Srcs(s) == [k \in 1..Len(s) |-> [src |-> s[k].src]]

\* the number of chunks of a video of n frames cut in chunks of c
NumChunks(n, c) == (n + c - 1) \div c

\* C1: embed_video writes exactly the n source frames, each once and in source
\* order: the chunk starting at i covers frames [i, min(i + c, n)), i is a
\* multiple of c, what is written is always a prefix of what was read, what was
\* read is a prefix of the source, never more than one chunk is read and not
\* yet written, and on return the output holds the n frames 1..n in order.
C1_FramesWrittenOnceInOrder ==
    /\ IsPrefix(read, decoder)
    /\ IsPrefix(Srcs(stream), read)
    /\ Len(read) - Len(stream) <= chunk_size
    /\ pc \in {"process", "write"} =>
          /\ i % chunk_size = 0
          /\ Len(stream) = i
          /\ frames = [k \in 1..(Min(i + chunk_size, Len(decoder)) - i) |->
                          [src |-> i + k]]
    /\ pc = "write" => Srcs(processed_frames) = frames
    /\ pc = "done" =>
          /\ Len(stream) = Len(decoder)
          /\ \A k \in 1..Len(stream) : stream[k].src = k

\* C1 witness: a video whose last chunk is shorter, after at least one full
\* chunk, has been written completely.
C1_Witness ==
    /\ pc = "done"
    /\ Len(decoder) > chunk_size
    /\ Len(decoder) % chunk_size # 0
    /\ Len(stream) = Len(decoder)

\* C2: the message is one tensor of 96 bits, each 0 or 1; every call of
\* video_model.embed receives that same message, one call per chunk; the list
\* returned is that message, and it is the message carried by every frame
\* written.
C2_SameMessageEveryChunk ==
    /\ pc # "call" =>
          /\ Len(message_bits) = 1
          /\ Len(message_bits[1]) = MsgBits
          /\ \A j \in 1..MsgBits : message_bits[1][j] \in {0, 1}
    /\ \A k \in 1..Len(embed_msgs) : embed_msgs[k] = message_bits
    /\ pc = "done" =>
          /\ Len(embed_msgs) = NumChunks(Len(decoder), chunk_size)
          /\ Len(ret[2]) = MsgBits
          /\ \A j \in 1..MsgBits : ret[2][j] = message_bits[1][j]
          /\ \A k \in 1..Len(stream) : stream[k].msg = ret[2]

\* C2 witness: a video of at least two chunks was embedded with a message
\* that holds both a 0 and a 1.
C2_Witness ==
    /\ pc = "done"
    /\ Len(embed_msgs) >= 2
    /\ \E j, k \in 1..MsgBits : ret[2][j] = 0 /\ ret[2][k] = 1

(***************************************************************************)
(* analyze_video                                                            *)
(***************************************************************************)
\* One row of video_model.detect's "preds": PayloadLen + 1 soft values. The
\* detector is a black box; its rows are drawn from this small family.
PredRow(k) ==
    [j \in 1..(PayloadLen + 1) |->
        IF j = 1 THEN MaxPred - k ELSE (k + j) % (MaxPred + 1)]

PredRows == { PredRow(k) : k \in 0..MaxPred }

\* video_model.detect(clip, is_video=True)["preds"]: one row per frame
DetectOutputs(clip) == [1..Len(clip) -> PredRows]

\* A plausible bug: dropping the last position instead of the first.
DropLastColumn(preds) ==
    [r \in 1..Len(preds) |-> SubSeq(preds[r], 1, Len(preds[r]) - 1)]

\* outputs["preds"][:, 1:]
DropFirstColumn(preds) ==
    [r \in 1..Len(preds) |-> SubSeq(preds[r], 2, Len(preds[r]))]

\* analyze_video_chunk, given what detect returned for the chunk
analyze_video_chunk(preds) == DropFirstColumn(preds)

\* tensor.mean(dim=0) of a non-empty (rows, width) tensor: per column, the sum
\* of the column over the number of rows, kept as an exact fraction.
MeanDim0(t) ==
    [j \in 1..Len(t[1]) |->
        [num |-> SumSeq([r \in 1..Len(t) |-> t[r][j]]), den |-> Len(t)]]

InitAnalyze == InitStream /\ IdleEmbed /\ IdleAnalyze /\ IdleAug /\ IdleHttp

\* lines 80-87: probe, open the decoder, soft_msgs = []
AnalyzeStart ==
    /\ pc = "call"
    /\ soft_msgs' = <<>>
    /\ pc' = "loop"
    /\ UNCHANGED <<decoder, chunk_size, i, frames, ret, error, detected>>
    /\ UNCHANGED notAnalyze

\* line 89: frames = decoder[i : i + chunk_size]
AnalyzeDecode ==
    /\ pc = "loop"
    /\ LoopContinues(i, Len(decoder), chunk_size)
    /\ frames' = Slice(decoder, i, i + chunk_size)
    /\ pc' = "detect"
    /\ UNCHANGED <<decoder, chunk_size, i, ret, error>>
    /\ UNCHANGED analyzeVars
    /\ UNCHANGED notAnalyze

\* lines 90-91: output_bits = analyze_video_chunk(frames); append; next i
AnalyzeChunk ==
    /\ pc = "detect"
    /\ \E preds \in DetectOutputs(frames) :
          /\ soft_msgs' = Append(soft_msgs, analyze_video_chunk(preds))
          /\ detected' = detected \o preds
    /\ i' = i + chunk_size
    /\ pc' = "loop"
    /\ UNCHANGED <<decoder, chunk_size, frames, ret, error>>
    /\ UNCHANGED notAnalyze

\* lines 94-99: torch.cat raises RuntimeError on an empty list; otherwise the
\* mean over all rows is returned as a list
AnalyzeReturn ==
    /\ pc = "loop"
    /\ ~LoopContinues(i, Len(decoder), chunk_size)
    /\ IF soft_msgs = <<>>
         THEN /\ error' = "RuntimeError"
              /\ pc' = "raised"
              /\ UNCHANGED ret
         ELSE /\ ret' = MeanDim0(Cat(soft_msgs))
              /\ pc' = "done"
              /\ UNCHANGED error
    /\ UNCHANGED <<decoder, chunk_size, i, frames>>
    /\ UNCHANGED analyzeVars
    /\ UNCHANGED notAnalyze

NextAnalyze ==
    \/ AnalyzeStart
    \/ AnalyzeDecode
    \/ AnalyzeChunk
    \/ AnalyzeReturn

SpecAnalyze == InitAnalyze /\ [][NextAnalyze]_vars

(***************************************************************************)
(* Claims about analyze_video (checked under SpecAnalyze)                   *)
(***************************************************************************)
\* C3: analyze_video on a video of zero frames ends by raising
\* EmptyVideoError: it neither returns a value nor raises another error.
C3_EmptyVideoError ==
    (pc \in {"done", "raised"} /\ Len(decoder) = 0) =>
        (pc = "raised" /\ error = "EmptyVideoError")

MaxAugs    == 2      \* the augs argument names 0..MaxAugs augmentations
MaxNumAugs == 2      \* num_augs ranges over 0..MaxNumAugs
MaxPixel   == 1      \* pixel values range over 0..MaxPixel
MaxDim     == 2      \* heights and widths range over 1..MaxDim

\* name2aug: catalog name -> class
name2aug ==
    "rotate" :> "Rotate" @@ "resize" :> "Resize" @@ "crop" :> "Crop" @@
    "perspective" :> "Perspective" @@ "hflip" :> "HorizontalFlip" @@
    "identity" :> "Identity" @@ "jpeg" :> "JPEG" @@
    "gaussian_blur" :> "GaussianBlur" @@ "median_filter" :> "MedianFilter" @@
    "brightness" :> "Brightness" @@ "contrast" :> "Contrast" @@
    "saturation" :> "Saturation" @@ "hue" :> "Hue" @@
    "video_compression" :> "VideoCompressorAugmenter" @@ "h264" :> "H264"

\* the names the augs argument is built from: catalog names and one name
\* that is not in the catalog
ConfigNames == {"resize", "video_compression", "h264", "nosuch"}

\* the weights the augs argument is built from
Weights == {0, 1}

\* the augs argument: a dict, as its <<name, weight>> items in order
AugsInputs ==
    { s \in UNION { [1..n -> ConfigNames \X Weights] : n \in 0..MaxAugs } :
        \A a, b \in 1..Len(s) : a # b => s[a][1] # s[b][1] }

\* lines 116-117: total_prob = sum(probs); [prob / total_prob for prob in probs]
\* (float division by zero raises ZeroDivisionError; an empty list divides
\* nothing)
Normalize(probs) ==
    LET total == SumSeq(probs)
    IN  IF Len(probs) > 0 /\ total = 0
          THEN [error |-> "ZeroDivisionError", probs |-> <<>>]
          ELSE [error |-> "",
                probs |-> [k \in 1..Len(probs) |-> [num |-> probs[k], den |-> total]]]

\* Augmenter.parse_augmentations: the first name missing from name2aug raises
\* ValueError inside the loop; otherwise the weights are normalized.
parse_augmentations(augs) ==
    LET unknown == { k \in 1..Len(augs) : augs[k][1] \notin DOMAIN name2aug }
        norm    == Normalize([k \in 1..Len(augs) |-> augs[k][2]])
    IN  IF unknown # {}
          THEN [error |-> "ValueError", augs |-> <<>>, probs |-> <<>>]
          ELSE IF norm.error # ""
          THEN [error |-> norm.error, augs |-> <<>>, probs |-> <<>>]
          ELSE [error |-> "",
                augs  |-> [k \in 1..Len(augs) |-> name2aug[augs[k][1]]],
                probs |-> norm.probs]

\* torch.multinomial(self.aug_probs, 1): the positions (1-based here) that can
\* be drawn; none when the tensor is empty, and multinomial then raises
\* RuntimeError
Multinomial(probs) == { k \in 1..Len(probs) : probs[k].num > 0 }

\* A frame batch or a mask: a pixel value, the spatial size (h, w) and the
\* transformations applied to it so far.
Tensor(px, shape) == [px |-> px, shape |-> shape, hist |-> <<>>]

Shapes == (1..MaxDim) \X (1..MaxDim)

\* the classes whose transformation may change the spatial size
SizeChanging == {"Resize", "Crop"}

\* the spatial sizes a transformation of class cls may give an input of size
\* shape
TransformShapes(cls, shape) ==
    IF cls \in SizeChanging THEN Shapes ELSE {shape}

\* selected_aug(image, mask): frames and mask go through the same
\* transformation
Apply(cls, x, outShape) ==
    [px |-> x.px, shape |-> outShape, hist |-> Append(x.hist, cls)]

\* interpolate with height and width exchanged: size=(w, h)
InterpolateSwapped(x, size) ==
    [px |-> x.px, shape |-> <<size[2], size[1]>>,
     hist |-> Append(x.hist, "interpolate")]

\* nn.functional.interpolate(x, size=(h, w), mode='bilinear', ...)
Interpolate(x, size) ==
    [px |-> x.px, shape |-> size, hist |-> Append(x.hist, "interpolate")]

\* line 122-124: the list augment selects from
AugsForCall(augs, isVideo) ==
    IF ~isVideo
      THEN [k \in 1..Len(augs) |->
              IF augs[k] # "VideoCompressorAugmenter" THEN augs[k] ELSE "Identity"]
      ELSE augs

\* Augmenter.augment, given the position drawn and the size the transformation
\* produced
augment(augs, image, mask, isVideo, do_resize, index, outShape) ==
    LET cls == AugsForCall(augs, isVideo)[index]
        img == Apply(cls, image, outShape)
        msk == Apply(cls, mask, outShape)
        resized == do_resize /\ img.shape # image.shape
    IN  [image    |-> IF resized THEN Interpolate(img, image.shape) ELSE img,
         mask     |-> IF resized THEN Interpolate(msk, image.shape) ELSE msk,
         label    |-> cls,
         index    |-> index,
         is_video |-> isVideo,
         do_resize |-> do_resize,
         image_in |-> image,
         mask_in  |-> mask,
         aug_shape |-> img.shape]

\* "+".join(selected_augs)
RECURSIVE JoinPlus(_)
JoinPlus(labels) ==
    IF labels = <<>> THEN ""
    ELSE IF Len(labels) = 1 THEN labels[1]
    ELSE labels[1] \o "+" \o JoinPlus(Tail(labels))

\* line 160: imgs_w * mask_targets + imgs * (1 - mask_targets)
Blend(imgs_w, imgs, mask) ==
    [px    |-> imgs_w.px * mask.px + imgs.px * (1 - mask.px),
     shape |-> imgs_w.shape,
     hist  |-> <<>>]

\* A plausible bug: every step gets the mask forward started with instead of
\* the mask the step before returned.
StepMaskInitial(current, initial) == initial

\* lines 164-165: the mask handed to the next augment call
StepMask(current, initial) == current

InitAug ==
    /\ IdleStream /\ IdleEmbed /\ IdleAnalyze /\ IdleHttp
    /\ aug_pc = "new"
    /\ cfg_augs \in AugsInputs
    /\ num_augs \in 0..MaxNumAugs
    /\ self_augs = <<>>
    /\ aug_probs = <<>>
    /\ built = <<>>
    /\ IdleAugCall

\* Augmenter.__init__ (lines 74-86)
Construct ==
    /\ aug_pc = "new"
    /\ LET p == parse_augmentations(cfg_augs)
       IN  /\ aug_error' = p.error
           /\ self_augs' = p.augs
           /\ aug_probs' = p.probs
           /\ built' = IF p.error = "" THEN <<p.augs, p.probs>> ELSE <<>>
           /\ aug_pc' = IF p.error = "" THEN "ready" ELSE "failed"
    /\ aug_op' = "construct"
    /\ UNCHANGED <<cfg_augs, num_augs, training, is_video, imgs_aug,
                   mask_targets, selected_augs, selected_aug, aug_calls,
                   aug_ret, fwd_in>>
    /\ UNCHANGED notAug

\* a call of Augmenter.augment (lines 120-137) from outside
AugmentCall ==
    /\ aug_pc = "ready"
    /\ \E isv \in BOOLEAN, dr \in BOOLEAN, sh \in Shapes, p \in 0..MaxPixel :
          /\ is_video' = isv
          /\ IF Multinomial(aug_probs) = {}
               THEN /\ aug_error' = "RuntimeError"
                    /\ aug_calls' = <<>>
                    /\ aug_ret' = <<>>
               ELSE \E index \in Multinomial(aug_probs) :
                    \E out \in TransformShapes(AugsForCall(self_augs, isv)[index], sh) :
                       LET r == augment(self_augs, Tensor(p, sh), Tensor(1, sh),
                                        isv, dr, index, out)
                       IN  /\ aug_error' = ""
                           /\ aug_calls' = <<r>>
                           /\ aug_ret' = <<r.image, r.mask, r.label>>
    /\ aug_op' = "augment"
    /\ training' = FALSE
    /\ imgs_aug' = UnboundTensor
    /\ mask_targets' = UnboundTensor
    /\ selected_augs' = <<>>
    /\ selected_aug' = Unbound
    /\ fwd_in' = <<>>
    /\ aug_pc' = "returned"
    /\ UNCHANGED <<cfg_augs, num_augs, self_augs, aug_probs, built>>
    /\ UNCHANGED notAug

\* Augmenter.forward up to the loop: lines 155-162 (training) or 169-173
ForwardStart ==
    /\ aug_pc = "ready"
    /\ \E tr \in BOOLEAN, isv \in BOOLEAN, w \in 0..MaxPixel, o \in 0..MaxPixel,
          m \in {0, 1} :
          LET sh     == <<MaxDim, MaxDim>>
              imgs_w == Tensor(w, sh)
              imgs   == Tensor(o, sh)
          IN  /\ training' = tr
              /\ is_video' = isv
              /\ IF tr
                   THEN /\ mask_targets' = Tensor(m, sh)
                        /\ imgs_aug' = Blend(imgs_w, imgs, Tensor(m, sh))
                        /\ fwd_in' = [imgs_w |-> imgs_w, imgs |-> imgs,
                                      mask |-> Tensor(m, sh)]
                   ELSE /\ mask_targets' = Tensor(1, sh)
                        /\ imgs_aug' = UnboundTensor
                        /\ fwd_in' = [imgs_w |-> imgs_w, imgs |-> imgs,
                                      mask |-> Tensor(1, sh)]
    /\ selected_augs' = <<>>
    /\ selected_aug' = Unbound
    /\ aug_calls' = <<>>
    /\ aug_ret' = <<>>
    /\ aug_error' = ""
    /\ aug_op' = "forward"
    /\ aug_pc' = "fwd"
    /\ UNCHANGED <<cfg_augs, num_augs, self_augs, aug_probs, built>>
    /\ UNCHANGED notAug

\* one iteration of for _ in range(self.num_augs): lines 163-166 / 174-177
ForwardAugment ==
    /\ aug_pc = "fwd"
    /\ Len(selected_augs) < num_augs
    /\ IF imgs_aug = UnboundTensor
         THEN /\ aug_error' = "UnboundLocalError"
              /\ aug_pc' = "returned"
              /\ UNCHANGED <<imgs_aug, mask_targets, selected_augs, aug_calls>>
         ELSE IF Multinomial(aug_probs) = {}
         THEN /\ aug_error' = "RuntimeError"
              /\ aug_pc' = "returned"
              /\ UNCHANGED <<imgs_aug, mask_targets, selected_augs, aug_calls>>
         ELSE \E index \in Multinomial(aug_probs) :
              \E out \in TransformShapes(AugsForCall(self_augs, is_video)[index],
                                         imgs_aug.shape) :
                 LET r == augment(self_augs, imgs_aug,
                                  StepMask(mask_targets, fwd_in.mask),
                                  is_video, FALSE, index, out)
                 IN  /\ imgs_aug' = r.image
                     /\ mask_targets' = r.mask
                     /\ selected_augs' = Append(selected_augs, r.label)
                     /\ aug_calls' = Append(aug_calls, r)
                     /\ UNCHANGED <<aug_error, aug_pc>>
    /\ UNCHANGED <<cfg_augs, num_augs, self_augs, aug_probs, built, training,
                   is_video, selected_aug, aug_ret, aug_op, fwd_in>>
    /\ UNCHANGED notAug

\* the return of forward: lines 167-168 (training) or 178
ForwardReturn ==
    /\ aug_pc = "fwd"
    /\ Len(selected_augs) = num_augs
    /\ IF training
         THEN /\ selected_aug' = JoinPlus(selected_augs)
              /\ aug_ret' = <<imgs_aug, mask_targets, JoinPlus(selected_augs)>>
              /\ UNCHANGED aug_error
         ELSE IF imgs_aug = UnboundTensor \/ selected_aug = Unbound
         THEN /\ aug_error' = "UnboundLocalError"
              /\ UNCHANGED <<selected_aug, aug_ret>>
         ELSE /\ aug_ret' = <<imgs_aug, mask_targets, selected_aug>>
              /\ UNCHANGED <<selected_aug, aug_error>>
    /\ aug_pc' = "returned"
    /\ UNCHANGED <<cfg_augs, num_augs, self_augs, aug_probs, built, training,
                   is_video, imgs_aug, mask_targets, selected_augs, aug_calls,
                   aug_op, fwd_in>>
    /\ UNCHANGED notAug

\* the caller is done with the result of a call (the loop of lines 233-235
\* goes round): the call's locals are gone, the Augmenter stays
NextCall ==
    /\ aug_pc = "returned"
    /\ aug_pc' = "ready"
    /\ training' = FALSE
    /\ is_video' = FALSE
    /\ imgs_aug' = UnboundTensor
    /\ mask_targets' = UnboundTensor
    /\ selected_augs' = <<>>
    /\ selected_aug' = Unbound
    /\ aug_calls' = <<>>
    /\ aug_ret' = <<>>
    /\ aug_error' = ""
    /\ aug_op' = ""
    /\ fwd_in' = <<>>
    /\ UNCHANGED <<cfg_augs, num_augs, self_augs, aug_probs, built>>
    /\ UNCHANGED notAug

NextAug ==
    \/ Construct
    \/ AugmentCall
    \/ ForwardStart
    \/ ForwardAugment
    \/ ForwardReturn
    \/ NextCall

SpecAug == InitAug /\ [][NextAug]_vars

\* An Augmenter built from one catalog entry: every key of name2aug in turn,
\* with weight 1 and the constructor's default num_augs (line 60).
CatalogInputs == { <<<<name, 1>>>> : name \in DOMAIN name2aug }

InitCatalog ==
    /\ IdleStream /\ IdleEmbed /\ IdleAnalyze /\ IdleHttp
    /\ aug_pc = "new"
    /\ cfg_augs \in CatalogInputs
    /\ num_augs = 1
    /\ self_augs = <<>>
    /\ aug_probs = <<>>
    /\ built = <<>>
    /\ IdleAugCall

NextCatalog ==
    \/ Construct
    \/ AugmentCall
    \/ NextCall

SpecCatalog == InitCatalog /\ [][NextCatalog]_vars

(***************************************************************************)
(* Claims about the Augmenter (checked under SpecAug and SpecCatalog)       *)
(***************************************************************************)
\* the weight mapping sums to zero, or names something absent from the catalog
Degenerate(augs) ==
    \/ SumSeq([k \in 1..Len(augs) |-> augs[k][2]]) = 0
    \/ \E k \in 1..Len(augs) : augs[k][1] \notin DOMAIN name2aug

\* the configuration error of the code: the ValueError of line 111
ConfigErrors == {"ValueError"}

\* C5: a weight mapping that sums to zero, or that names a transformation
\* absent from the catalog, makes the constructor fail with the configuration
\* error and leaves no Augmenter; so no call on a constructed Augmenter ends
\* with a configuration error or with a failure to sample from its weights.
C5_ConfigErrorAtConstruction ==
    /\ (aug_pc # "new" /\ Degenerate(cfg_augs)) =>
          (aug_pc = "failed" /\ aug_error \in ConfigErrors)
    /\ aug_pc \in {"ready", "fwd", "returned"} =>
          aug_error \notin {"ValueError", "ZeroDivisionError", "RuntimeError"}

\* the video-only (codec recompression) entries of the catalog
VideoOnlyClasses == { name2aug[n] : n \in {"video_compression", "h264"} }

\* C6: in an augment call for non-video content, a video-only entry drawn
\* is applied as Identity, so no video-only transformation is applied; and
\* the Augmenter's stored catalog and weights stay as constructed.
C6_VideoOnlyReplaced ==
    /\ \A k \in 1..Len(aug_calls) :
          ~aug_calls[k].is_video =>
             /\ aug_calls[k].label \notin VideoOnlyClasses
             /\ self_augs[aug_calls[k].index] \in VideoOnlyClasses =>
                   aug_calls[k].label = "Identity"
    /\ aug_pc \in {"ready", "fwd", "returned"} =>
          <<self_augs, aug_probs>> = built

\* C7: in evaluation mode with num_augs >= 1, forward (of an Augmenter built
\* from a well-formed weight mapping) completes and returns
\* three values: the frames and the mask of the last of num_augs augment
\* calls, which started from an all-ones mask, and the label of the last step.
C7_EvalForwardReturns ==
    (/\ aug_op = "forward" /\ ~training /\ aug_pc = "returned"
     /\ num_augs >= 1 /\ ~Degenerate(cfg_augs)) =>
        /\ aug_error = ""
        /\ Len(aug_ret) = 3
        /\ Len(aug_calls) = num_augs
        /\ aug_calls[1].mask_in.px = 1
        /\ aug_ret = <<aug_calls[num_augs].image, aug_calls[num_augs].mask,
                       aug_calls[num_augs].label>>

\* C8: in training mode forward starts from
\* watermarked * mask + original * (1 - mask), call 1 of augment receives that
\* blend and the mask, call k + 1 receives the frames and the mask call k
\* returned, and a forward that returns has made exactly num_augs calls and
\* returns the last call's frames and mask (the blend and the mask when
\* num_augs is 0) and the per-step labels, in order, joined by "+".
C8_TrainingForwardChains ==
    (aug_op = "forward" /\ training) =>
        LET blended ==
              [px    |-> fwd_in.imgs_w.px * fwd_in.mask.px
                           + fwd_in.imgs.px * (1 - fwd_in.mask.px),
               shape |-> fwd_in.imgs_w.shape,
               hist  |-> <<>>]
        IN  /\ Len(aug_calls) <= num_augs
            /\ \A k \in 1..Len(aug_calls) :
                  /\ aug_calls[k].image_in =
                        IF k = 1 THEN blended ELSE aug_calls[k - 1].image
                  /\ aug_calls[k].mask_in =
                        IF k = 1 THEN fwd_in.mask ELSE aug_calls[k - 1].mask
                  /\ aug_calls[k].is_video = is_video
            /\ (aug_pc = "returned" /\ aug_error = "") =>
                  /\ Len(aug_calls) = num_augs
                  /\ aug_ret[1] = IF num_augs = 0 THEN blended
                                  ELSE aug_calls[num_augs].image
                  /\ aug_ret[2] = IF num_augs = 0 THEN fwd_in.mask
                                  ELSE aug_calls[num_augs].mask
                  /\ aug_ret[3] =
                        JoinPlus([k \in 1..num_augs |-> aug_calls[k].label])

\* C8 witness: a training-mode forward with two steps of different
\* transformations returned, the mask hiding the watermark of frames that
\* differ from the originals.
C8_Witness ==
    /\ aug_op = "forward"
    /\ training
    /\ aug_pc = "returned"
    /\ aug_error = ""
    /\ num_augs >= 2
    /\ fwd_in.mask.px = 0
    /\ fwd_in.imgs_w.px # fwd_in.imgs.px
    /\ aug_calls[1].label # aug_calls[2].label
    /\ aug_ret[3] = aug_calls[1].label \o "+" \o aug_calls[2].label

\* C11: for every catalog transformation and every input (frames, mask) of
\* spatial size (h, w), a call of augment with do_resize returns frames and
\* mask that both have size (h, w): when the selected transformation changed
\* the size, both were resampled to (h, w) by the same interpolate call, and
\* when it did not, neither was resampled.  The returned label is the class
\* name of the transformation that was applied to the frames and the mask.
C11_RestoreShape ==
    (aug_op = "augment" /\ aug_pc = "returned" /\ aug_error = "") =>
        LET c   == aug_calls[1]
            hw  == c.image_in.shape
            cls == AugsForCall(self_augs, c.is_video)[c.index]
        IN  /\ c.mask_in.shape = hw
            /\ aug_ret[3] = cls
            /\ c.do_resize =>
                  /\ aug_ret[1].shape = hw
                  /\ aug_ret[2].shape = hw
                  /\ aug_ret[1].hist = aug_ret[2].hist
                  /\ aug_ret[1].hist =
                        IF c.aug_shape # hw THEN <<aug_ret[3], "interpolate">>
                        ELSE <<aug_ret[3]>>

\* C11 witness: a do_resize call on frames that are not square, whose
\* transformation changed the size, returned frames and mask at the original
\* size.
C11_Witness ==
    /\ aug_op = "augment"
    /\ aug_pc = "returned"
    /\ aug_error = ""
    /\ aug_calls[1].do_resize
    /\ aug_calls[1].image_in.shape[1] # aug_calls[1].image_in.shape[2]
    /\ aug_calls[1].aug_shape # aug_calls[1].image_in.shape
    /\ aug_ret[1].shape = aug_calls[1].image_in.shape
    /\ aug_ret[2].shape = aug_calls[1].image_in.shape
    /\ aug_ret[3] \in SizeChanging

(***************************************************************************)
(* The Flask handlers process_video_file and analyze_video_file             *)
(***************************************************************************)
Handlers == {"process_video_file", "analyze_video_file"}

\* request.files: no 'video' part, a part with an empty filename, a named part
Requests ==
    { [has_video |-> FALSE, has_filename |-> FALSE],
      [has_video |-> TRUE,  has_filename |-> FALSE],
      [has_video |-> TRUE,  has_filename |-> TRUE] }

Response(status, body, bits) ==
    [kind |-> "response", status |-> status, body |-> body, bits |-> bits]

\* an exception that leaves the handler
Escaped(exc) == [kind |-> "exception", status |-> 0, body |-> exc, bits |-> <<>>]

\* the ways a call into the pipeline (embed_video, analyze_video) can end:
\* normally, on an unreadable / unsupported / empty source, or on a model or
\* encoder failure
PipelineResults == {"ok", "bad_input", "internal"}

\* line 186-187: except Exception as e: return str(e), 500
ExceptStatus(kind) == 500

\* A plausible bug: the re-muxed file is left out of the cleanup list.
CleanupPathsNoRemux == {"temp_input", "temp_output"}

\* line 155: for path in [temp_input, temp_output, temp_output2]
CleanupPaths == {"temp_input", "temp_output", "temp_output2"}

InitHttp ==
    /\ IdleStream /\ IdleEmbed /\ IdleAnalyze /\ IdleAug
    /\ handler \in Handlers
    /\ h_pc = "entry"
    /\ request \in Requests
    /\ fs = {}
    /\ combine_result = -1
    /\ h_exc = ""
    /\ h_bits = <<>>
    /\ h_ret = NoResponse
    /\ outcome = NoResponse
    /\ failure = ""
    /\ created = {}
    /\ stuck = {}

\* lines 104-109 / 165-170: the request has no usable 'video' part
RejectRequest ==
    /\ h_pc = "entry"
    /\ ~(request.has_video /\ request.has_filename)
    /\ outcome' = IF ~request.has_video
                    THEN Response(400, "No video file uploaded", <<>>)
                    ELSE Response(400, "No video file selected", <<>>)
    /\ h_pc' = "returned"
    /\ UNCHANGED <<h_bits, handler, request, fs, combine_result, h_exc, h_ret,
                   failure, created, stuck>>
    /\ UNCHANGED notHttp

\* lines 112-114 / 173: the temp paths are chosen
ChoosePaths ==
    /\ h_pc = "entry"
    /\ request.has_video /\ request.has_filename
    /\ h_pc' = "save"
    /\ UNCHANGED <<h_bits, handler, request, fs, combine_result, h_exc, h_ret,
                   outcome, failure, created, stuck>>
    /\ UNCHANGED notHttp

\* lines 118 / 177: video_file.save(temp_input); a failing save may leave a
\* partial file
SaveUpload ==
    /\ h_pc = "save"
    /\ \E ok \in BOOLEAN, written \in BOOLEAN :
          IF ok
            THEN /\ fs' = fs \cup {"temp_input"}
                 /\ created' = created \cup {"temp_input"}
                 /\ h_pc' = IF handler = "process_video_file"
                              THEN "embed" ELSE "analyze"
                 /\ UNCHANGED <<h_exc, failure>>
            ELSE /\ fs' = IF written THEN fs \cup {"temp_input"} ELSE fs
                 /\ created' = IF written THEN created \cup {"temp_input"}
                               ELSE created
                 /\ h_exc' = "SaveError"
                 /\ failure' = "save"
                 /\ h_pc' = IF handler = "process_video_file"
                              THEN "finally" ELSE "except"
    /\ UNCHANGED <<h_bits, handler, request, combine_result, h_ret, outcome, stuck>>
    /\ UNCHANGED notHttp

\* line 121: _, message_bits = embed_video(temp_input, temp_output); the
\* decoder is opened before the output stream, so an unreadable source leaves
\* no output file, and a later failure may leave a partial one
EmbedVideo ==
    /\ h_pc = "embed"
    /\ \E res \in PipelineResults, written \in BOOLEAN :
          /\ res = "bad_input" => ~written
          /\ res = "ok" => written
          /\ fs' = IF written THEN fs \cup {"temp_output"} ELSE fs
          /\ created' = IF written THEN created \cup {"temp_output"} ELSE created
          /\ IF res = "ok"
               THEN /\ \E m \in RandInt : h_bits' = Flatten(m)
                    /\ h_pc' = "remux"
                    /\ UNCHANGED <<h_exc, failure>>
               ELSE /\ h_exc' = "PipelineError"
                    /\ failure' = res
                    /\ h_pc' = "finally"
                    /\ UNCHANGED h_bits
    /\ UNCHANGED <<handler, request, combine_result, h_ret, outcome, stuck>>
    /\ UNCHANGED notHttp

\* lines 122-136: ffmpeg copies the video of temp_output and the audio of
\* temp_input into temp_output2; starting it may raise, and it may exit with
\* a non-zero code, with or without a partial file
RemuxAudio ==
    /\ h_pc = "remux"
    /\ \E res \in {"raised", "zero", "nonzero"}, written \in BOOLEAN :
          /\ res = "raised" => ~written
          /\ res = "zero" => written
          /\ fs' = IF written THEN fs \cup {"temp_output2"} ELSE fs
          /\ created' = IF written THEN created \cup {"temp_output2"} ELSE created
          /\ IF res = "raised"
               THEN /\ h_exc' = "RemuxError"
                    /\ failure' = "remux"
                    /\ h_pc' = "finally"
                    /\ UNCHANGED combine_result
               ELSE /\ combine_result' = IF res = "zero" THEN 0 ELSE 1
                    /\ h_pc' = "respond"
                    /\ UNCHANGED <<h_exc, failure>>
    /\ UNCHANGED <<h_bits, handler, request, h_ret, outcome, stuck>>
    /\ UNCHANGED notHttp

\* lines 139-151: open the file to send, build the multipart response
BuildResponse ==
    /\ h_pc = "respond"
    /\ \E ok \in BOOLEAN :
          IF ok
            THEN /\ h_ret' = Response(200,
                                      IF combine_result = 0
                                        THEN "temp_output2" ELSE "temp_output",
                                      h_bits)
                 /\ UNCHANGED <<h_exc, failure>>
            ELSE /\ h_exc' = "ResponseError"
                 /\ failure' = "response"
                 /\ UNCHANGED h_ret
    /\ h_pc' = "finally"
    /\ UNCHANGED <<h_bits, handler, request, fs, combine_result, outcome, created, stuck>>
    /\ UNCHANGED notHttp

\* lines 153-160: every listed path that exists is removed; an OSError of
\* os.remove is swallowed and the file stays; then the handler ends, by its
\* return value or by the exception still propagating
ProcessFinally ==
    /\ h_pc = "finally"
    /\ handler = "process_video_file"
    /\ \E failed \in SUBSET (fs \cap CleanupPaths) :
          /\ fs' = (fs \ CleanupPaths) \cup failed
          /\ stuck' = failed
    /\ outcome' = IF h_exc # "" THEN Escaped(h_exc) ELSE h_ret
    /\ h_pc' = "returned"
    /\ UNCHANGED <<h_bits, handler, request, combine_result, h_exc, h_ret, failure,
                   created>>
    /\ UNCHANGED notHttp

\* lines 180-184: extracted_bits = analyze_video(temp_input); jsonify
AnalyzeVideo ==
    /\ h_pc = "analyze"
    /\ \E res \in PipelineResults :
          IF res = "ok"
            THEN /\ \E row \in PredRows :
                       /\ h_bits' = SubSeq(row, 2, Len(row))
                       /\ h_ret' = Response(200, "extracted_bits",
                                            SubSeq(row, 2, Len(row)))
                 /\ h_pc' = "finally"
                 /\ UNCHANGED <<h_exc, failure>>
            ELSE /\ h_exc' = "PipelineError"
                 /\ failure' = res
                 /\ h_pc' = "except"
                 /\ UNCHANGED <<h_ret, h_bits>>
    /\ UNCHANGED <<handler, request, fs, combine_result, outcome, created, stuck>>
    /\ UNCHANGED notHttp

\* lines 186-187: except Exception as e: return str(e), 500
AnalyzeExcept ==
    /\ h_pc = "except"
    /\ h_ret' = Response(ExceptStatus(failure), h_exc, <<>>)
    /\ h_exc' = ""
    /\ h_pc' = "finally"
    /\ UNCHANGED <<h_bits, handler, request, fs, combine_result, outcome, failure,
                   created, stuck>>
    /\ UNCHANGED notHttp

\* lines 189-192: temp_input is removed if it exists; an OSError of os.remove
\* leaves the file and leaves the handler in place of the return value
AnalyzeFinally ==
    /\ h_pc = "finally"
    /\ handler = "analyze_video_file"
    /\ \E failed \in SUBSET (fs \cap {"temp_input"}) :
          /\ fs' = (fs \ {"temp_input"}) \cup failed
          /\ stuck' = failed
          /\ outcome' = IF failed # {} THEN Escaped("OSError") ELSE h_ret
    /\ h_pc' = "returned"
    /\ UNCHANGED <<h_bits, handler, request, combine_result, h_exc, h_ret, failure,
                   created>>
    /\ UNCHANGED notHttp

NextHttp ==
    \/ RejectRequest
    \/ ChoosePaths
    \/ SaveUpload
    \/ EmbedVideo
    \/ RemuxAudio
    \/ BuildResponse
    \/ ProcessFinally
    \/ AnalyzeVideo
    \/ AnalyzeExcept
    \/ AnalyzeFinally

SpecHttp == InitHttp /\ [][NextHttp]_vars

C10_StructuredFailure ==
    (h_pc = "returned" /\ failure \in {"bad_input", "internal"}) =>
        /\ outcome.kind = "response"
        /\ outcome.status # 200
        /\ failure = "bad_input" => outcome.status # ExceptStatus("internal")
        /\ failure = "internal" => outcome.status # ExceptStatus("bad_input")

=============================================================================
